---- MODULE Spec2Model ----
(***************************************************************************)
(* A model of xdis/magics.py (the magic-number / version registry built    *)
(* at import time, and its queries) and of xdis/opcodes/opcode_35.py (the  *)
(* 3.5 opcode table derived from the 3.x table by an edit sequence).       *)
(*                                                                         *)
(* Python dicts are functions whose DOMAIN is the key set; `versions`,     *)
(* whose iteration order __by_version depends on, is a sequence of         *)
(* <<key, value>> pairs in insertion order.  Byte strings are sequences of *)
(* integers 0..255.  Version strings are strings.                          *)
(***************************************************************************)
EXTENDS Integers, Sequences, FiniteSets, TLC

VARIABLES
    pc,                      \* position in the module-level code of magics.py
    ip,                      \* statements executed so far in the current phase
    err,                     \* the exception of the last registry call, or "none"
    magicint2version,        \* dict: magic int -> version string
    versions,                \* ordered dict: magic bytes -> version string
    by_magic,                \* dict: magic bytes -> set of version strings
    by_version,              \* dict: version string -> magic bytes (= magics)
    canonic_python_version,  \* dict: version string -> canonic version string
    python_versions,         \* set of all known version strings
    sys_result,              \* what the last sysinfo2magic call looked up and got
    tuple_result,            \* the last py_str2tuple / magic_int2tuple call and its outcome
    hist_reg,                \* history: the add_magic_from_int calls, in order
    hist_alias               \* history: the add_canonic_versions calls, in order

magics_vars == <<pc, ip, err, magicint2version, versions, by_magic, by_version,
                 canonic_python_version, python_versions, sys_result,
                 tuple_result, hist_reg, hist_alias>>

VARIABLES
    pc35,            \* position in the module-level code of opcode_35.py
    ip35,            \* edits of the 3.5 sequence applied so far
    heap,            \* the objects (dicts, lists): object id -> value
    opcode_3x,       \* the parent module's names: name -> value
    l,               \* opcode_35's namespace (l = locals() is globals()):
                     \* name -> value
    lookup_result    \* the last call of a user of the module and its outcome

ops_vars == <<pc35, ip35, heap, opcode_3x, l, lookup_result>>

vars == <<magics_vars, ops_vars>>

----------------------------------------------------------------------------
(* Dictionaries *)

EmptyDict == <<>>

\* d[k] = v
DictPut(d, k, v) == (k :> v) @@ d

\* An insertion-ordered dict as a sequence of <<key, value>>: assigning to a
\* key that is present keeps its position.
OdKeys(od) == {od[i][1] : i \in 1..Len(od)}

OdValues(od) == {od[i][2] : i \in 1..Len(od)}

\* Assignment that moves a key that is present to the end.
OdPut_move_to_end(od, k, v) ==
    Append(SelectSeq(od, LAMBDA e : e[1] # k), <<k, v>>)

OdPut(od, k, v) ==
    IF k \in OdKeys(od)
    THEN [i \in 1..Len(od) |-> IF od[i][1] = k THEN <<k, v>> ELSE od[i]]
    ELSE Append(od, <<k, v>>)

\* od[k] for a key that is present.
OdGet(od, k) == od[CHOOSE i \in 1..Len(od) : od[i][1] = k][2]

\* del od[k] for a key that is present: the other items keep their order.
OdDel(od, k) == SelectSeq(od, LAMBDA e : e[1] # k)

\* The mapping an ordered dict holds, without the order.
OdAsDict(od) == [k \in OdKeys(od) |-> OdGet(od, k)]

----------------------------------------------------------------------------
(* magic int <-> magic bytes *)

\* struct.pack("<H", n): two bytes, little endian; n must fit 16 bits.
pack_H(n) == <<n % 256, n \div 256>>

LegacyMagics == {39170, 39171}

\* struct.pack(">H", n): the two bytes in the other order.
pack_H_bigendian(n) == <<n \div 256, n % 256>>

int2magic_bigendian(magic_int) ==
    IF magic_int \in LegacyMagics
    THEN pack_H_bigendian(magic_int) \o <<153, 0>>
    ELSE pack_H_bigendian(magic_int) \o <<13, 10>>

int2magic(magic_int) ==
    IF magic_int \in LegacyMagics
    THEN pack_H(magic_int) \o <<153, 0>>     \* b"\x99\x00"
    ELSE pack_H(magic_int) \o <<13, 10>>     \* b"\r", b"\n"

\* struct.unpack("<Hcc", magic)[0]
magic2int(magic) == magic[1] + 256 * magic[2]

----------------------------------------------------------------------------
(* Loops *)

\* "for item in items[lo..hi]: acc = Body(acc, item)", left to right.  The
\* range is halved, and the left half's result is evaluated (left = left)
\* before the right half starts, so that the evaluation depth stays
\* logarithmic in the number of items.
RECURSIVE ForEach(_, _, _, _, _)
ForEach(Body(_, _), acc, items, lo, hi) ==
    IF lo > hi THEN acc
    ELSE IF lo = hi THEN Body(acc, items[lo])
    ELSE LET mid == (lo + hi) \div 2
             left == ForEach(Body, acc, items, lo, mid)
         IN IF left = left THEN ForEach(Body, left, items, mid + 1, hi) ELSE left

----------------------------------------------------------------------------
(* Index construction *)

\* One iteration of __by_version's loop for the item <<m, version>>; acc
\* holds the module's by_magic and by_version as mutated so far.
by_version_body(acc, item) ==
    LET m == item[1]
        version == item[2]
    IN [by_magic |-> IF m \notin DOMAIN acc.by_magic
                     THEN DictPut(acc.by_magic, m, {version})
                     ELSE DictPut(acc.by_magic, m, acc.by_magic[m] \cup {version}),
        by_version |-> DictPut(acc.by_version, version, m)]

\* for m, version in list(magic_versions.items()): ...
by_version_loop(items, bm, bv) ==
    ForEach(by_version_body, [by_magic |-> bm, by_version |-> bv], items, 1, Len(items))

\* magics is the object __by_version returns, which is by_version itself.
magics == by_version

----------------------------------------------------------------------------
(* str.split() *)

\* The characters str.isspace() holds for, as far as a string of this module
\* can hold them (code points up to U+00FF): space, \t, \n, \r, \f, and,
\* written as themselves, U+000B, U+001C..U+001F, U+0085, U+00A0.  The
\* whitespace beyond U+00FF (U+1680, U+2000..U+200A, U+2028, U+2029, U+202F,
\* U+205F, U+3000) cannot occur in a string here.
Whitespace ==
    {" ", "\t", "\n", "\r", "\f", "", "", "", "", "", "", " "}

IsSpace(c) == c \in Whitespace

CharAt(s, i) == SubSeq(s, i, i)

\* The positions of s that hold a whitespace character.
SpacesOf(s) == {i \in 1..Len(s) : IsSpace(CharAt(s, i))}

\* Where a word starts in a string of length n with whitespace at the
\* positions sp: a non-space position at the start or after a space.
WordStarts(n, sp) ==
    {i \in 1..n : i \notin sp /\ (i = 1 \/ (i - 1) \in sp)}

\* Where the word starting at i ends: before the next space or at the end.
WordEnd(n, sp, i) ==
    LET later == {j \in sp : j > i}
    IN IF later = {} THEN n
       ELSE (CHOOSE j \in later : \A k \in later : j <= k) - 1

\* The k-th smallest element of a set of integers.
Nth(S, k) == CHOOSE x \in S : Cardinality({y \in S : y < x}) = k - 1

\* s.split(): the maximal runs of non-space characters, in order.
split(s) ==
    LET n == Len(s)
        sp == SpacesOf(s)
        starts == WordStarts(n, sp)
    IN [k \in 1..Cardinality(starts) |->
           LET i == Nth(starts, k) IN SubSeq(s, i, WordEnd(n, sp, i))]

----------------------------------------------------------------------------
(* Alias registration *)

\* One iteration of add_canonic_versions' loop.  The first assignment is
\* done before magics[canonic] can raise KeyError, so a raising call leaves
\* that binding behind; once raised, the remaining strings are not visited.
canonic_body(acc, version) ==
    IF acc.raised THEN acc
    ELSE LET cpv2 == DictPut(acc.cpv, version, acc.canonic)
         IN IF acc.canonic \notin DOMAIN acc.magics
            THEN [acc EXCEPT !.cpv = cpv2, !.raised = TRUE]
            ELSE [acc EXCEPT !.cpv = cpv2,
                             !.magics = DictPut(acc.magics, version,
                                                acc.magics[acc.canonic])]

\* A variant that binds only the last string of the list.
add_canonic_versions_result_lastonly(release_versions, canonic, cpv, mg) ==
    LET vs == split(release_versions)
    IN ForEach(canonic_body,
               [canonic |-> canonic, cpv |-> cpv, magics |-> mg, raised |-> FALSE],
               vs, Len(vs), Len(vs))

\* for version in release_versions.split(): ...
add_canonic_versions_result(release_versions, canonic, cpv, mg) ==
    LET vs == split(release_versions)
    IN ForEach(canonic_body,
               [canonic |-> canonic, cpv |-> cpv, magics |-> mg, raised |-> FALSE],
               vs, 1, Len(vs))

selfmap_body(cpv, item) == DictPut(cpv, item[2], item[2])

\* for v in versions.values(): canonic_python_version[v] = v
selfmap_loop(od, cpv) == ForEach(selfmap_body, cpv, od, 1, Len(od))

----------------------------------------------------------------------------
(* The catalogue: the module-level statements of magics.py, in order *)

\* add_magic_from_int(magic_int, version) calls: <<magic_int, version>>.
Registrations == <<
    <<39170, "1.0">>,
    <<39171, "1.1">>,
    <<11913, "1.3">>,
    <<5892, "1.4">>,
    <<20121, "1.5">>,
    <<50428, "1.6">>,
    <<50823, "2.0">>,
    <<60202, "2.1">>,
    <<60717, "2.2">>,
    <<62011, "2.3a0">>,
    <<62021, "2.3a0">>,
    <<62041, "2.4a0">>,
    <<62051, "2.4a3">>,
    <<62061, "2.4b1">>,
    <<62071, "2.5a0">>,
    <<62081, "2.5a0">>,
    <<62091, "2.5a0">>,
    <<62092, "2.5a0">>,
    <<62101, "2.5b3">>,
    <<62111, "2.5b3">>,
    <<62121, "2.5c1">>,
    <<62131, "2.5c2">>,
    <<62135, "2.5dropbox">>,
    <<62151, "2.6a0">>,
    <<62161, "2.6a1">>,
    <<62171, "2.7a0">>,
    <<62181, "2.7a0+1">>,
    <<62191, "2.7a0+2">>,
    <<62201, "2.7a0+3">>,
    <<62211, "2.7">>,
    <<2657, "2.7pyston-0.6.1">>,
    <<62211 + 7, "2.7pypy">>,
    <<3000, "3.000">>,
    <<3010, "3.000+1">>,
    <<3020, "3.000+2">>,
    <<3030, "3.000+3">>,
    <<3040, "3.000+4">>,
    <<3050, "3.000+5">>,
    <<3060, "3.000+6">>,
    <<3061, "3.000+7">>,
    <<3071, "3.000+8">>,
    <<3081, "3.000+9">>,
    <<3091, "3.000+10">>,
    <<3101, "3.000+11">>,
    <<3103, "3.000+12">>,
    <<3111, "3.0a4">>,
    <<3131, "3.0a5">>,
    <<3141, "3.1a0">>,
    <<3151, "3.1a0+">>,
    <<3160, "3.2a0">>,
    <<3170, "3.2a1">>,
    <<3180, "3.2a2">>,
    <<3180 + 7, "3.2pypy">>,
    <<3190, "3.3a0">>,
    <<3200, "3.3a0+">>,
    <<3220, "3.3a1">>,
    <<3210, "3.3a2">>,
    <<3230, "3.3a4">>,
    <<3250, "3.4a1">>,
    <<3260, "3.4a1+1">>,
    <<3270, "3.4a1+2">>,
    <<3280, "3.4a1+3">>,
    <<3290, "3.4a4">>,
    <<3300, "3.4a4+">>,
    <<3310, "3.4rc2">>,
    <<3320, "3.5a0">>,
    <<3330, "3.5b1">>,
    <<3340, "3.5b2">>,
    <<3350, "3.5">>,
    <<3351, "3.5.2">>,
    <<3360, "3.6a0">>,
    <<3361, "3.6a0+1">>,
    <<3370, "3.6a1">>,
    <<3371, "3.6a1+1">>,
    <<3372, "3.6a1+2">>,
    <<3373, "3.6b1">>,
    <<3375, "3.6b1+1">>,
    <<3376, "3.6b1+2">>,
    <<3377, "3.6b1+3">>,
    <<3378, "3.6b2">>,
    <<3379, "3.6rc1">>,
    <<3390, "3.7.0alpha0">>,
    <<3391, "3.7.0alpha3">>,
    <<3392, "3.7.0beta2">>,
    <<3393, "3.7.0beta3">>,
    <<3394, "3.7.0">>,
    <<3400, "3.8.0a1">>,
    <<3401, "3.8.0a3+">>,
    <<3410, "3.8.0a1+">>,
    <<3411, "3.8.0b2+">>,
    <<3412, "3.8.0beta2">>,
    <<3413, "3.8.0rc1+">>,
    <<3420, "3.9.0a0">>,
    <<3421, "3.9.0a0">>,
    <<3422, "3.9.0alpha1">>,
    <<3423, "3.9.0a0">>,
    <<3424, "3.9.0a2">>,
    <<3425, "3.9.0beta5">>,
    <<3430, "3.10a1">>,
    <<3431, "3.10a1">>,
    <<3432, "3.10a2">>,
    <<3433, "3.10a2">>,
    <<3434, "3.10a6">>,
    <<3435, "3.10a7">>,
    <<3438, "3.10b1">>,
    <<3439, "3.10.0rc2">>,
    <<3450, "3.11a1a">>,
    <<3451, "3.11a1b">>,
    <<3452, "3.11a1c">>,
    <<3453, "3.11a1d">>,
    <<3454, "3.11a1e">>,
    <<3455, "3.11a1f">>,
    <<3457, "3.11a1g">>,
    <<3458, "3.11a1h">>,
    <<3459, "3.11a1i">>,
    <<3460, "3.11a1j">>,
    <<3461, "3.11a1k">>,
    <<3462, "3.11a2">>,
    <<3463, "3.11a3a">>,
    <<3464, "3.11a3b">>,
    <<3465, "3.11a4a">>,
    <<3466, "3.11a4b">>,
    <<3466, "3.11a4c">>,
    <<3467, "3.11a4d">>,
    <<3468, "3.11a4e">>,
    <<3469, "3.11a4f">>,
    <<3470, "3.11a4g">>,
    <<3471, "3.11a4h">>,
    <<3472, "3.11a4i">>,
    <<3473, "3.11a4j">>,
    <<3474, "3.11a4k">>,
    <<3475, "3.11a5a">>,
    <<3476, "3.11a5b">>,
    <<3477, "3.11a5c">>,
    <<3478, "3.11a5d">>,
    <<3479, "3.11a5e">>,
    <<3480, "3.11a5e">>,
    <<3481, "3.11a5f">>,
    <<3482, "3.11a5g">>,
    <<3483, "3.11a5h">>,
    <<3484, "3.11a5i">>,
    <<3485, "3.11a5j">>,
    <<3486, "3.11a6a">>,
    <<3487, "3.11a6b">>,
    <<3488, "3.11a6c">>,
    <<3489, "3.11a6d">>,
    <<3490, "3.11a6d">>,
    <<3491, "3.11a7a">>,
    <<3492, "3.11a7b">>,
    <<3493, "3.11a7c">>,
    <<3494, "3.11a7d">>,
    <<3495, "3.11a7e">>,
    <<3531, "3.12.0rc2">>,
    <<48, "3.2a2">>,
    <<64, "3.3pypy">>,
    <<112, "3.5pypy">>,
    <<160, "3.6.1pypy">>,
    <<192, "3.6pypy">>,
    <<224, "3.7pypy">>,
    <<240, "3.7pypy">>,
    <<256, "3.8pypy">>,
    <<336, "3.9pypy">>,
    <<384, "3.10pypy">>,
    <<21150, "3.8.5Graal">>,
    <<1011, "2.7.1b3Jython">>,
    <<22138, "2.7.7Pyston">>
>>

\* magics[new] = magics[old] assignments: <<new, old>>.
ManualEntries == <<
    <<"3.8.12pypy", "3.8.0rc1+">>,
    <<"3.9.15pypy", "3.9.0alpha1">>
>>

\* add_canonic_versions(release_versions, canonic) calls:
\* <<release_versions, canonic>>.
CanonicCalls == <<
    <<"1.5.1 1.5.2", "1.5">>,
    <<"2.0.1", "2.0">>,
    <<"2.1.1 2.1.2 2.1.3", "2.1">>,
    <<"2.2.3", "2.2">>,
    <<"2.3 2.3.7", "2.3a0">>,
    <<"2.4 2.4.0 2.4.1 2.4.2 2.4.3 2.4.5 2.4.6", "2.4b1">>,
    <<"2.5 2.5.0 2.5.1 2.5.2 2.5.3 2.5.4 2.5.5 2.5.6", "2.5c2">>,
    <<"2.6 2.6.6 2.6.7 2.6.8 2.6.9", "2.6a1">>,
    <<"2.7.0 2.7.1 2.7.2 2.7.2 2.7.3 2.7.4 2.7.5 2.7.6 2.7.7 2.7.8 "
       \o "2.7.9 2.7.10 2.7.11 2.7.12 2.7.13 2.7.14 2.7.15 "
       \o "2.7.15candidate1 2.7.16 2.7.17rc1 2.7.17candidate1 2.7.17 "
       \o "2.7.18 2.7.18candidate1",
      "2.7">>,
    <<"3.0 3.0.0 3.0.1", "3.0a5">>,
    <<"3.1 3.1.0 3.1.1 3.1.2 3.1.3 3.1.4 3.1.5", "3.1a0+">>,
    <<"3.2 3.2.0 3.2.1 3.2.2 3.2.3 3.2.4 3.2.5 3.2.6", "3.2a2">>,
    <<"3.3 3.3.0 3.3.1 3.3.2 3.3.3 3.3.4 3.3.5 3.3.6 3.3.7rc1 "
       \o "3.3.7",
      "3.3a4">>,
    <<"3.4 3.4.0 3.4.1 3.4.2 3.4.3 3.4.4 3.4.5 3.4.6 3.4.7 3.4.8 "
       \o "3.4.9 3.4.10",
      "3.4rc2">>,
    <<"3.5 3.5.0 3.5.1", "3.5">>,
    <<"3.5.2 3.5.3 3.5.4 3.5.5 3.5.6 3.5.7 3.5.8 3.5.9 3.5.10", "3.5.2">>,
    <<"3.6b2 3.6 3.6.0 3.6.1 3.6.2 3.6.3 3.6.4 3.6.5 3.6.6 3.6.7 "
       \o "3.6.8 3.6.9 3.6.10 3.6.11 3.6.12 3.6.13 3.6.14 3.6.15",
      "3.6rc1">>,
    <<"3.7b1", "3.7.0beta3">>,
    <<"3.8a1", "3.8.0beta2">>,
    <<"2.7.10pypy 2.7.12pypy 2.7.13pypy 2.7.18pypy", "2.7pypy">>,
    <<"2.7.3b0Jython", "2.7.1b3Jython">>,
    <<"3.8.5Graal", "3.8.5Graal">>,
    <<"3.2.5pypy", "3.2pypy">>,
    <<"3.3.5pypy", "3.3pypy">>,
    <<"3.5.3pypy", "3.5pypy">>,
    <<"3.6.9pypy", "3.6pypy">>,
    <<"3.7.0pypy 3.7.9pypy 3.7.10pypy 3.7.12pypy 3.7.13pypy", "3.7pypy">>,
    <<"3.8.0pypy 3.8pypy 3.8.12pypy 3.8.13pypy 3.8.15pypy "
       \o "3.8.16pypy",
      "3.8.12pypy">>,
    <<"3.9.17pypy", "3.9pypy">>,
    <<"3.10.12pypy 3.10pypy", "3.10pypy">>,
    <<"2.7.8Pyston", "2.7.7Pyston">>,
    <<"3.7.0alpha3", "3.7.0alpha3">>,
    <<"3.7 3.7.0beta5 3.7.1 3.7.2 3.7.3 3.7.4 3.7.5 3.7.6 3.7.7 "
       \o "3.7.8 3.7.9 3.7.10 3.7.11 3.7.12 3.7.13 3.7.14 3.7.15 "
       \o "3.7.16 3.7.17",
      "3.7.0">>,
    <<"3.8.0alpha0 3.8.0alpha3 3.8.0a0", "3.8.0a3+">>,
    <<"3.8b4 3.8.0candidate1 3.8 3.8.0 3.8.1 3.8.2 3.8.3 3.8.4 "
       \o "3.8.5 3.8.6 3.8.7 3.8.8 3.8.9 3.8.10 3.8.11 3.8.12 3.8.13 "
       \o "3.8.14 3.8.15 3.8.16 3.8.17 3.8.18",
      "3.8.0rc1+">>,
    <<"3.9 3.9.0 3.9.0a1+ 3.9.0a2+ 3.9.0alpha1 3.9.0alpha2", "3.9.0alpha1">>,
    <<"3.9 3.9.0 3.9.1 3.9.2 3.9.3 3.9.4 3.9.5 3.9.6 3.9.7 3.9.8 "
       \o "3.9.9 3.9.10 3.9.11 3.9.12 3.9.13 3.9.14 3.9.14 3.9.15 "
       \o "3.9.16 3.9.10pypy 3.9.11pypy 3.9.12pypy 3.9.15pypy "
       \o "3.9.16pypy 3.9.0b5+ 3.9.17 3.9.18",
      "3.9.0beta5">>,
    <<"3.10 3.10.0 3.10.1 3.10.2 3.10.3 3.10.4 3.10.5 3.10.6 "
       \o "3.10.7 3.10.8 3.10.9 3.10.10 3.10.11 3.10.12 3.10.13",
      "3.10.0rc2">>,
    <<"3.11 3.11.0 3.11.1 3.11.2 3.11.3 3.11.4 3.11.5", "3.11a7e">>,
    <<"3.12 3.12.0", "3.12.0rc2">>
>>

----------------------------------------------------------------------------
(* The module-level statements of magics.py as steps *)

\* Where an exception of a call leaves the module: a statement of the module
\* itself that raises ends the import; once the module is imported the
\* exception goes to the caller and the module stays as the call left it.
after_raise(p) == IF p = "done" THEN "done" ELSE "error"

\* add_magic_from_int, first-registration-wins variant of the forward map.
add_magic_from_int_keepfirst(magic_int, version) ==
    /\ pc # "error"
    /\ magicint2version' =
          IF magic_int \in DOMAIN magicint2version
          THEN magicint2version
          ELSE DictPut(magicint2version, magic_int, version)
    /\ IF magic_int \in 0..65535
       THEN /\ versions' = OdPut(versions, int2magic(magic_int), version)
            /\ err' = "none"
            /\ UNCHANGED pc
       ELSE /\ pc' = after_raise(pc)
            /\ err' = "struct.error"
            /\ UNCHANGED versions
    /\ hist_reg' = Append(hist_reg, <<magic_int, version, pc>>)
    /\ UNCHANGED <<by_magic, by_version, canonic_python_version,
                   python_versions, sys_result, tuple_result, hist_alias>>

\* magicint2version[magic_int] = version is assigned before int2magic can
\* raise struct.error for an integer outside 16 bits.  The function can be
\* called at any time: after the index was built it still changes
\* magicint2version and versions, and by_magic and by_version are not
\* brought up to date.
add_magic_from_int(magic_int, version) ==
    /\ pc # "error"
    /\ magicint2version' = DictPut(magicint2version, magic_int, version)
    /\ IF magic_int \in 0..65535
       THEN /\ versions' = OdPut(versions, int2magic(magic_int), version)
            /\ err' = "none"
            /\ UNCHANGED pc
       ELSE /\ pc' = after_raise(pc)
            /\ err' = "struct.error"
            /\ UNCHANGED versions
    /\ hist_reg' = Append(hist_reg, <<magic_int, version, pc>>)
    /\ UNCHANGED <<by_magic, by_version, canonic_python_version,
                   python_versions, sys_result, tuple_result, hist_alias>>

\* magics = __by_version(versions)
build_by_version ==
    /\ pc = "register"
    /\ LET r == by_version_loop(versions, by_magic, by_version)
       IN /\ by_magic' = r.by_magic
          /\ by_version' = r.by_version
    /\ pc' = "built"
    /\ UNCHANGED <<err, magicint2version, versions, canonic_python_version,
                   python_versions, sys_result, tuple_result, hist_reg, hist_alias>>

\* magics[new] = magics[old]
manual_entry(new, old) ==
    /\ pc = "built"
    /\ IF old \in DOMAIN magics
       THEN /\ by_version' = DictPut(magics, new, magics[old])
            /\ UNCHANGED <<pc, err>>
       ELSE /\ pc' = "error"
            /\ err' = "KeyError"
            /\ UNCHANGED by_version
    /\ UNCHANGED <<magicint2version, versions, by_magic,
                   canonic_python_version, python_versions, sys_result, tuple_result,
                   hist_reg, hist_alias>>

\* The function can be called at any time once canonic_python_version and
\* magics exist: after the self-mapping loop it is not followed by it, and
\* after python_versions was computed that set is not brought up to date.
add_canonic_versions(release_versions, canonic) ==
    /\ pc \in {"built", "selfmapped", "done"}
    /\ LET r == add_canonic_versions_result(release_versions, canonic,
                                            canonic_python_version, magics)
       IN /\ canonic_python_version' = r.cpv
          /\ by_version' = r.magics
          /\ IF r.raised
             THEN pc' = after_raise(pc) /\ err' = "KeyError"
             ELSE err' = "none" /\ UNCHANGED pc
    /\ hist_alias' = Append(hist_alias, <<release_versions, canonic, pc>>)
    /\ UNCHANGED <<magicint2version, versions, by_magic, python_versions,
                   sys_result, tuple_result, hist_reg>>

\* for v in versions.values(): canonic_python_version[v] = v
selfmap ==
    /\ pc = "built"
    /\ canonic_python_version' = selfmap_loop(versions, canonic_python_version)
    /\ pc' = "selfmapped"
    /\ UNCHANGED <<err, magicint2version, versions, by_magic, by_version,
                   python_versions, sys_result, tuple_result, hist_reg, hist_alias>>

\* python_versions = set(canonic_python_version.keys())
set_python_versions ==
    /\ pc = "selfmapped"
    /\ python_versions' = DOMAIN canonic_python_version
    /\ pc' = "done"
    /\ UNCHANGED <<err, magicint2version, versions, by_magic, by_version,
                   canonic_python_version, sys_result, tuple_result, hist_reg, hist_alias>>

MagicsInit ==
    /\ pc = "register"
    /\ ip = 0
    /\ err = "none"
    /\ magicint2version = EmptyDict
    /\ versions = <<>>
    /\ by_magic = EmptyDict
    /\ by_version = EmptyDict
    /\ canonic_python_version = EmptyDict
    /\ python_versions = {}
    /\ sys_result = [version_info |-> <<>>, impl |-> "", has_platform |-> FALSE,
                     key |-> "", raised |-> "none", magic |-> <<>>]
    /\ tuple_result = [fn |-> "", version |-> "", magic_int |-> -1,
                       raised |-> "none", value |-> <<>>]
    /\ hist_reg = <<>>
    /\ hist_alias = <<>>

----------------------------------------------------------------------------
(* Spec: any catalogue over a small universe of the real one's entries *)

MaxRegs == 3
MaxAliases == 2

MagicInts == {3378, 3379}
RegVersions == {"3.6b2", "3.6rc1"}
ManualInputs == {<<"3.6pypy", "3.6rc1">>}
AliasLists == {"3.6b2 3.6", "3.6.1"}
AliasTargets == {"3.6rc1", "3.6"}

Register ==
    /\ Len(hist_reg) < MaxRegs
    /\ \E m \in MagicInts, v \in RegVersions : add_magic_from_int(m, v)
    /\ UNCHANGED <<ip, ops_vars>>

BuildIndex == build_by_version /\ UNCHANGED <<ip, ops_vars>>

Manual ==
    /\ \E e \in ManualInputs : manual_entry(e[1], e[2])
    /\ UNCHANGED <<ip, ops_vars>>

Alias ==
    /\ Len(hist_alias) < MaxAliases
    /\ \E rv \in AliasLists, c \in AliasTargets : add_canonic_versions(rv, c)
    /\ UNCHANGED <<ip, ops_vars>>

SelfMap == selfmap /\ UNCHANGED <<ip, ops_vars>>

PythonVersions == set_python_versions /\ UNCHANGED <<ip, ops_vars>>

Next == Register \/ BuildIndex \/ Manual \/ Alias \/ SelfMap \/ PythonVersions

----------------------------------------------------------------------------
(* sysinfo2magic *)

\* str(v) for the integers of a version tuple.
str(v) == ToString(v)

\* xdis.version_info.version_tuple_to_str(version_tuple, start, end) with the
\* delimiter ".": the items start..end-1 (0-based) joined by dots.
RECURSIVE join_from(_, _, _)
join_from(t, i, end) ==
    IF i > end \/ i > Len(t) THEN ""
    ELSE IF i = end \/ i = Len(t) THEN str(t[i])
    ELSE str(t[i]) \o "." \o join_from(t, i + 1, end)

version_tuple_to_str(version_tuple, start, end) ==
    join_from(version_tuple, start + 1, end)

\* The module object bound to the name `platform` by "import platform".
platform == "<module 'platform'>"

ImplementationNames == {"Jython", "Pyston", "GraalVM"}

\* vers_str before the implementation suffix: the first three items, and
\* for a release level other than "final" the items from index 3 on.
vers_str_of(version_info) ==
    IF version_info[4] # "final"
    THEN version_tuple_to_str(version_info, 0, 3)
         \o version_tuple_to_str(version_info, 3, 3)
    ELSE version_tuple_to_str(version_info, 0, 3)

\* The key sysinfo2magic looks up in magics.  has_platform is FALSE when
\* "import platform" raises ImportError.  The membership test is on the
\* name `platform`, the module, as in the source.
sysinfo2magic_key(version_info, IS_PYPY, has_platform, platform_str) ==
    LET vers_str == vers_str_of(version_info)
    IN IF IS_PYPY THEN vers_str \o "pypy"
       ELSE IF has_platform /\ platform \in ImplementationNames
            THEN vers_str \o platform_str
            ELSE vers_str

\* What the runtime probe can report: the version tuple and the
\* implementation (IS_PYPY is true exactly on PyPy).
VersionInfos == {
    <<2, 7, 1, "beta", 3>>, <<2, 7, 7, "final", 0>>, <<2, 7, 18, "final", 0>>,
    <<3, 2, 5, "final", 0>>, <<3, 5, 3, "final", 0>>, <<3, 6, 9, "final", 0>>,
    <<3, 7, 0, "beta", 3>>, <<3, 8, 5, "final", 0>>, <<3, 9, 17, "final", 0>>,
    <<3, 10, 12, "final", 0>>, <<3, 12, 0, "candidate", 2>>, <<3, 13, 0, "final", 0>>}

Implementations == {"CPython", "PyPy", "Jython", "Pyston", "GraalVM", "IronPython"}

sysinfo2magic(version_info, impl, has_platform) ==
    /\ pc = "done"
    /\ LET key == sysinfo2magic_key(version_info, impl = "PyPy", has_platform, impl)
       IN sys_result' =
             [version_info |-> version_info, impl |-> impl,
              has_platform |-> has_platform, key |-> key,
              raised |-> IF key \in DOMAIN magics THEN "none" ELSE "KeyError",
              magic |-> IF key \in DOMAIN magics THEN magics[key] ELSE <<>>]
    /\ UNCHANGED <<pc, err, magicint2version, versions, by_magic, by_version,
                   canonic_python_version, python_versions, tuple_result,
                   hist_reg, hist_alias>>

----------------------------------------------------------------------------
(* py_str2tuple, magic_int2tuple *)

Digits == "0123456789"

\* \d on one character.
IsDigit(c) == \E i \in 1..Len(Digits) : CharAt(Digits, i) = c

DigitValue(c) == (CHOOSE i \in 1..Len(Digits) : CharAt(Digits, i) = c) - 1

\* int(s) of a string of digits.
RECURSIVE int(_)
int(s) ==
    IF Len(s) = 0 THEN 0
    ELSE 10 * int(SubSeq(s, 1, Len(s) - 1)) + DigitValue(CharAt(s, Len(s)))

\* Where the greedy \d+ starting at i ends; i - 1 when s has no digit at i.
DigitsEnd(s, i) ==
    CHOOSE j \in (i - 1)..Len(s) :
        /\ \A k \in i..j : IsDigit(CharAt(s, k))
        /\ (j = Len(s) \/ ~IsDigit(CharAt(s, j + 1)))

\* Where $ matches in s (no MULTILINE flag): at the end of the string, and
\* before a newline that is the last character.  Given as the number of
\* characters before the position.
DollarPositions(s) ==
    {Len(s)} \cup (IF Len(s) >= 1 /\ CharAt(s, Len(s)) = "\n"
                   THEN {Len(s) - 1} ELSE {})

\* Whether the characters of s just before position e are suffix.
EndsAt(s, suffix, e) ==
    e >= Len(suffix) /\ SubSeq(s, e - Len(suffix) + 1, e) = suffix

\* re.sub(r"(pypy|dropbox)$", "", orig_version): the one occurrence of pypy
\* or dropbox that ends where $ matches is cut out; a final newline after
\* it stays.
strip_pypy_dropbox(orig_version) ==
    LET hits == {h \in {"pypy", "dropbox"} \X DollarPositions(orig_version) :
                    EndsAt(orig_version, h[1], h[2])}
    IN IF hits = {} THEN orig_version
       ELSE LET h == CHOOSE x \in hits : TRUE
            IN SubSeq(orig_version, 1, h[2] - Len(h[1]))
                  \o SubSeq(orig_version, h[2] + 1, Len(orig_version))

\* re.match(r"^(\d)\.(\d+)\.(\d+)", version): the three groups, or <<>>.
match_three(version) ==
    LET e2 == DigitsEnd(version, 3)
        e3 == DigitsEnd(version, e2 + 2)
    IN IF /\ Len(version) >= 2
          /\ IsDigit(CharAt(version, 1))
          /\ CharAt(version, 2) = "."
          /\ e2 >= 3
          /\ e2 < Len(version)
          /\ CharAt(version, e2 + 1) = "."
          /\ e3 >= e2 + 2
       THEN <<SubSeq(version, 1, 1), SubSeq(version, 3, e2),
              SubSeq(version, e2 + 2, e3)>>
       ELSE <<>>

\* re.match(r"^(\d)\.(\d(\d+)?)[abr]?", version): groups 1 and 2, or <<>>.
match_two(version) ==
    LET e2 == DigitsEnd(version, 3)
    IN IF /\ Len(version) >= 2
          /\ IsDigit(CharAt(version, 1))
          /\ CharAt(version, 2) = "."
          /\ e2 >= 3
       THEN <<SubSeq(version, 1, 1), SubSeq(version, 3, e2)>>
       ELSE <<>>

py_str2tuple(orig_version, mg) ==
    LET version == strip_pypy_dropbox(orig_version)
        m3 == match_three(version)
        m2 == match_two(version)
    IN IF version \in DOMAIN mg /\ m3 # <<>>
       THEN [raised |-> "none", value |-> <<int(m3[1]), int(m3[2]), int(m3[3])>>]
       ELSE IF version \in DOMAIN mg /\ m2 # <<>>
            THEN [raised |-> "none", value |-> <<int(m2[1]), int(m2[2])>>]
            ELSE [raised |-> "RuntimeError", value |-> <<>>]

magic_int2tuple(magic_int, mi2v, mg) ==
    IF magic_int \in DOMAIN mi2v
    THEN py_str2tuple(mi2v[magic_int], mg)
    ELSE [raised |-> "KeyError", value |-> <<>>]

\* Version strings and magic integers a caller asks about.
VersionQueries == {
    "3.2a1", "3.2.0", "3.2.2", "3.2.6", "3.5.2", "3.10", "2.7pypy",
    "3.6.1pypy", "2.5dropbox", "3.13"}

MagicQueries == {3320, 3340, 3350, 3351, 62211, 39170, 9999}

py_str2tuple_call(orig_version) ==
    /\ pc = "done"
    /\ LET r == py_str2tuple(orig_version, magics)
       IN tuple_result' = [fn |-> "py_str2tuple", version |-> orig_version,
                           magic_int |-> -1, raised |-> r.raised, value |-> r.value]
    /\ UNCHANGED <<pc, err, magicint2version, versions, by_magic, by_version,
                   canonic_python_version, python_versions, sys_result,
                   hist_reg, hist_alias>>

magic_int2tuple_call(magic_int) ==
    /\ pc = "done"
    /\ LET r == magic_int2tuple(magic_int, magicint2version, magics)
       IN tuple_result' =
             [fn |-> "magic_int2tuple",
              version |-> IF magic_int \in DOMAIN magicint2version
                          THEN magicint2version[magic_int] ELSE "",
              magic_int |-> magic_int, raised |-> r.raised, value |-> r.value]
    /\ UNCHANGED <<pc, err, magicint2version, versions, by_magic, by_version,
                   canonic_python_version, python_versions, sys_result,
                   hist_reg, hist_alias>>

----------------------------------------------------------------------------
(* SpecCatalog: the import of magics.py as written, then runtime queries *)

Catalog ==
    [i \in 1..Len(Registrations) |-> [op |-> "reg", args |-> Registrations[i]]]
    \o << [op |-> "by_version", args |-> <<>>] >>
    \o [i \in 1..Len(ManualEntries) |-> [op |-> "manual", args |-> ManualEntries[i]]]
    \o [i \in 1..Len(CanonicCalls) |-> [op |-> "canonic", args |-> CanonicCalls[i]]]
    \o << [op |-> "selfmap", args |-> <<>>], [op |-> "python_versions", args |-> <<>>] >>

AtStmt(op) == ip < Len(Catalog) /\ Catalog[ip + 1].op = op

CatRegister ==
    /\ AtStmt("reg")
    /\ add_magic_from_int(Catalog[ip + 1].args[1], Catalog[ip + 1].args[2])
    /\ ip' = ip + 1
    /\ UNCHANGED ops_vars

CatBuildIndex ==
    /\ AtStmt("by_version")
    /\ build_by_version
    /\ ip' = ip + 1
    /\ UNCHANGED ops_vars

CatManual ==
    /\ AtStmt("manual")
    /\ manual_entry(Catalog[ip + 1].args[1], Catalog[ip + 1].args[2])
    /\ ip' = ip + 1
    /\ UNCHANGED ops_vars

CatAlias ==
    /\ AtStmt("canonic")
    /\ add_canonic_versions(Catalog[ip + 1].args[1], Catalog[ip + 1].args[2])
    /\ ip' = ip + 1
    /\ UNCHANGED ops_vars

CatSelfMap ==
    /\ AtStmt("selfmap")
    /\ selfmap
    /\ ip' = ip + 1
    /\ UNCHANGED ops_vars

CatPythonVersions ==
    /\ AtStmt("python_versions")
    /\ set_python_versions
    /\ ip' = ip + 1
    /\ UNCHANGED ops_vars

RuntimeQuery ==
    /\ \E vi \in VersionInfos, impl \in Implementations, hp \in BOOLEAN :
          sysinfo2magic(vi, impl, hp)
    /\ UNCHANGED <<ip, ops_vars>>

VersionTupleQuery ==
    /\ \E orig_version \in VersionQueries : py_str2tuple_call(orig_version)
    /\ UNCHANGED <<ip, ops_vars>>

MagicTupleQuery ==
    /\ \E magic_int \in MagicQueries : magic_int2tuple_call(magic_int)
    /\ UNCHANGED <<ip, ops_vars>>

NextCatalog ==
    \/ CatRegister \/ CatBuildIndex \/ CatManual \/ CatAlias
    \/ CatSelfMap \/ CatPythonVersions \/ RuntimeQuery
    \/ VersionTupleQuery \/ MagicTupleQuery


----------------------------------------------------------------------------
(* opcode_35.py: the 3.5 table as an edit of the 3.x table *)

\* The 3.x base table, opcode_3x.opmap: <<name, code>>.
Parent3xOpcodes == {
    <<"STOP_CODE", 0>>, <<"POP_TOP", 1>>, <<"ROT_TWO", 2>>,
    <<"ROT_THREE", 3>>, <<"DUP_TOP", 4>>, <<"DUP_TOP_TWO", 5>>, <<"NOP", 9>>,
    <<"UNARY_POSITIVE", 10>>, <<"UNARY_NEGATIVE", 11>>, <<"UNARY_NOT", 12>>,
    <<"UNARY_INVERT", 15>>, <<"BINARY_POWER", 19>>, <<"BINARY_MULTIPLY", 20>>,
    <<"BINARY_MODULO", 22>>, <<"BINARY_ADD", 23>>, <<"BINARY_SUBTRACT", 24>>,
    <<"BINARY_SUBSCR", 25>>, <<"BINARY_FLOOR_DIVIDE", 26>>,
    <<"BINARY_TRUE_DIVIDE", 27>>, <<"INPLACE_FLOOR_DIVIDE", 28>>,
    <<"INPLACE_TRUE_DIVIDE", 29>>, <<"STORE_MAP", 54>>, <<"INPLACE_ADD", 55>>,
    <<"INPLACE_SUBTRACT", 56>>, <<"INPLACE_MULTIPLY", 57>>,
    <<"INPLACE_MODULO", 59>>, <<"STORE_SUBSCR", 60>>, <<"DELETE_SUBSCR", 61>>,
    <<"BINARY_LSHIFT", 62>>, <<"BINARY_RSHIFT", 63>>, <<"BINARY_AND", 64>>,
    <<"BINARY_XOR", 65>>, <<"BINARY_OR", 66>>, <<"INPLACE_POWER", 67>>,
    <<"GET_ITER", 68>>, <<"STORE_LOCALS", 69>>, <<"PRINT_EXPR", 70>>,
    <<"LOAD_BUILD_CLASS", 71>>, <<"INPLACE_LSHIFT", 75>>,
    <<"INPLACE_RSHIFT", 76>>, <<"INPLACE_AND", 77>>, <<"INPLACE_XOR", 78>>,
    <<"INPLACE_OR", 79>>, <<"BREAK_LOOP", 80>>, <<"WITH_CLEANUP", 81>>,
    <<"RETURN_VALUE", 83>>, <<"IMPORT_STAR", 84>>, <<"YIELD_VALUE", 86>>,
    <<"POP_BLOCK", 87>>, <<"END_FINALLY", 88>>, <<"POP_EXCEPT", 89>>,
    <<"STORE_NAME", 90>>, <<"DELETE_NAME", 91>>, <<"UNPACK_SEQUENCE", 92>>,
    <<"FOR_ITER", 93>>, <<"UNPACK_EX", 94>>, <<"STORE_ATTR", 95>>,
    <<"DELETE_ATTR", 96>>, <<"STORE_GLOBAL", 97>>, <<"DELETE_GLOBAL", 98>>,
    <<"LOAD_CONST", 100>>, <<"LOAD_NAME", 101>>, <<"BUILD_TUPLE", 102>>,
    <<"BUILD_LIST", 103>>, <<"BUILD_SET", 104>>, <<"BUILD_MAP", 105>>,
    <<"LOAD_ATTR", 106>>, <<"COMPARE_OP", 107>>, <<"IMPORT_NAME", 108>>,
    <<"IMPORT_FROM", 109>>, <<"JUMP_FORWARD", 110>>,
    <<"JUMP_IF_FALSE_OR_POP", 111>>, <<"JUMP_IF_TRUE_OR_POP", 112>>,
    <<"JUMP_ABSOLUTE", 113>>, <<"POP_JUMP_IF_FALSE", 114>>,
    <<"POP_JUMP_IF_TRUE", 115>>, <<"LOAD_GLOBAL", 116>>,
    <<"CONTINUE_LOOP", 119>>, <<"SETUP_LOOP", 120>>, <<"SETUP_EXCEPT", 121>>,
    <<"SETUP_FINALLY", 122>>, <<"LOAD_FAST", 124>>, <<"STORE_FAST", 125>>,
    <<"DELETE_FAST", 126>>, <<"RAISE_VARARGS", 130>>,
    <<"CALL_FUNCTION", 131>>, <<"MAKE_FUNCTION", 132>>,
    <<"BUILD_SLICE", 133>>, <<"MAKE_CLOSURE", 134>>, <<"LOAD_CLOSURE", 135>>,
    <<"LOAD_DEREF", 136>>, <<"STORE_DEREF", 137>>, <<"DELETE_DEREF", 138>>,
    <<"CALL_FUNCTION_VAR", 140>>, <<"CALL_FUNCTION_KW", 141>>,
    <<"CALL_FUNCTION_VAR_KW", 142>>, <<"SETUP_WITH", 143>>,
    <<"EXTENDED_ARG", 144>>, <<"LIST_APPEND", 145>>, <<"SET_ADD", 146>>,
    <<"MAP_ADD", 147>>
}

\* An unused slot of opname: '<%s>' % op.
Placeholder(op) == "<" \o ToString(op) \o ">"

\* The opname of a table given as a set of <<name, code>>: a list of 256
\* names, the inverse of opmap where a code is defined and a placeholder
\* elsewhere.
OpnameOf(opcodes) ==
    [op \in 0..255 |->
        IF \E p \in opcodes : p[2] = op
        THEN (CHOOSE p \in opcodes : p[2] = op)[1]
        ELSE Placeholder(op)]

\* Its opmap: an insertion-ordered dict, the opcodes in the order of their
\* codes.
OpmapOf(opcodes) ==
    LET opname == OpnameOf(opcodes)
        defined == SelectSeq([i \in 1..256 |-> i - 1],
                             LAMBDA op : opname[op] # Placeholder(op))
    IN [k \in 1..Len(defined) |-> <<opname[defined[k]], defined[k]>>]

\* opcode_3x.opmap and opcode_3x.opname.
Parent3xOpmap == OpmapOf(Parent3xOpcodes)

Parent3xOpname == OpnameOf(Parent3xOpcodes)

\* opcode_3x.hasjrel, hasjabs, hasfree.
Parent3xHasjrel == <<93, 110, 120, 121, 122, 143>>

Parent3xHasjabs == <<111, 112, 113, 114, 115, 119>>

Parent3xHasfree == <<135, 136, 137, 138>>

\* "Below are opcodes changes since Python 3.2"
ChangesSince32 == <<
    [op |-> "rm_op", name |-> "STOP_CODE", code |-> 0],
    [op |-> "rm_op", name |-> "STORE_LOCALS", code |-> 69]
>>

\* "These are new since Python 3.3"
NewSince33 == <<
    [op |-> "def_op", name |-> "YIELD_FROM", code |-> 72],
    [op |-> "free_op", name |-> "LOAD_CLASSDEREF", code |-> 148]
>>

\* "These are removed since Python 3.4"
RemovedSince34 == <<
    [op |-> "rm_op", name |-> "WITH_CLEANUP", code |-> 81]
>>

\* "These are new since Python 3.5"
NewSince35 == <<
    [op |-> "def_op", name |-> "BINARY_MATRIX_MULTIPLY", code |-> 16],
    [op |-> "def_op", name |-> "INPLACE_MATRIX_MULTIPLY", code |-> 17],
    [op |-> "def_op", name |-> "GET_AITER", code |-> 50],
    [op |-> "def_op", name |-> "GET_ANEXT", code |-> 51],
    [op |-> "def_op", name |-> "BEFORE_ASYNC_WITH", code |-> 52],
    [op |-> "def_op", name |-> "GET_YIELD_FROM_ITER", code |-> 69],
    [op |-> "def_op", name |-> "GET_AWAITABLE", code |-> 73],
    [op |-> "def_op", name |-> "WITH_CLEANUP_START", code |-> 81],
    [op |-> "def_op", name |-> "WITH_CLEANUP_FINISH", code |-> 82],
    [op |-> "def_op", name |-> "BUILD_LIST_UNPACK", code |-> 149],
    [op |-> "def_op", name |-> "BUILD_MAP_UNPACK", code |-> 150],
    [op |-> "def_op", name |-> "BUILD_MAP_UNPACK_WITH_CALL", code |-> 151],
    [op |-> "def_op", name |-> "BUILD_TUPLE_UNPACK", code |-> 152],
    [op |-> "def_op", name |-> "BUILD_SET_UNPACK", code |-> 153],
    [op |-> "def_op", name |-> "SETUP_ASYNC_WITH", code |-> 154]
>>

\* The closing rm_op.
RemovedLast == <<
    [op |-> "rm_op", name |-> "STORE_MAP", code |-> 54]
>>

\* The sequence with every definition moved before the removals.
Edits35_definitions_first ==
    NewSince33 \o NewSince35 \o ChangesSince32 \o RemovedSince34 \o RemovedLast

\* The sequence without its closing removal of STORE_MAP.
Edits35_without_last_removal ==
    ChangesSince32 \o NewSince33 \o RemovedSince34 \o NewSince35

\* The rm_op / def_op / free_op calls of opcode_35.py, in order.
Edits35 ==
    ChangesSince32 \o NewSince33 \o RemovedSince34 \o NewSince35 \o RemovedLast

\* copy.deepcopy(obj): a new object holding an equal value (the tables hold
\* only strings and integers).
deepcopy(h, ref) == [heap |-> Append(h, h[ref]), ref |-> Len(h) + 1]

\* name = opcode_3x.name: the same object under a second name.
bind_table_shared(h, ref) == [heap |-> h, ref |-> ref]

\* name = deepcopy(opcode_3x.name)
bind_table(h, ref) == deepcopy(h, ref)

\* list.remove(x) when x is in the list; nothing otherwise.
ListWithout(lst, x) ==
    IF \E i \in 1..Len(lst) : lst[i] = x
    THEN LET first == CHOOSE i \in 1..Len(lst) :
                          lst[i] = x /\ \A j \in 1..(i - 1) : lst[j] # x
         IN SubSeq(lst, 1, first - 1) \o SubSeq(lst, first + 1, Len(lst))
    ELSE lst

\* Remove(name, op): the pair must be in the table.
rm_op_ok(h, ns, name, op) ==
    name \in OdKeys(h[ns.opmap.ref]) /\ OdGet(h[ns.opmap.ref], name) = op

rm_op(h, ns, name, op) ==
    IF ~rm_op_ok(h, ns, name, op)
    THEN [heap |-> h, ok |-> FALSE]
    ELSE [heap |-> [h EXCEPT ![ns.opmap.ref] = OdDel(@, name),
                             ![ns.opname.ref] = [@ EXCEPT ![op] = Placeholder(op)],
                             ![ns.hasjrel.ref] = ListWithout(@, op),
                             ![ns.hasjabs.ref] = ListWithout(@, op),
                             ![ns.hasfree.ref] = ListWithout(@, op)],
          ok |-> TRUE]

\* Define(name, op): neither the name nor the code may be in the table.
def_op_ok(h, ns, name, op) ==
    name \notin OdKeys(h[ns.opmap.ref]) /\ op \notin OdValues(h[ns.opmap.ref])

def_op(h, ns, name, op) ==
    IF ~def_op_ok(h, ns, name, op)
    THEN [heap |-> h, ok |-> FALSE]
    ELSE [heap |-> [h EXCEPT ![ns.opmap.ref] = OdPut(@, name, op),
                             ![ns.opname.ref] = [@ EXCEPT ![op] = name]],
          ok |-> TRUE]

\* free_op: def_op, and the code joins hasfree.
free_op(h, ns, name, op) ==
    LET r == def_op(h, ns, name, op)
    IN IF ~r.ok THEN r
       ELSE [heap |-> [r.heap EXCEPT ![ns.hasfree.ref] = Append(@, op)], ok |-> TRUE]

\* The values a name of a module namespace is bound to: an object of the
\* heap, an integer, a float (written as its text), or a map object.
PyRef(n) == [ref |-> n]

PyInt(n) == [int |-> n]

PyFloat(s) == [float |-> s]

IsRef(v) == "ref" \in DOMAIN v

IsMap(v) == "iterable" \in DOMAIN v

\* The names opcode_35 binds otherwise than by the statements below (l
\* itself, updateGlobal, the imports) and the builtins behind the namespace
\* (globals, dict, map) are not kept in l: such a name is in l exactly when
\* an opcode name has rebound it to an integer.
Rebound(ns, name) == name \in DOMAIN ns

\* The state when the import of opcode_35 begins, the parent module holding
\* the given table objects.
OpsImporting(opmap, opname, hasjrel, hasjabs, hasfree) ==
    /\ pc35 = "copy_opmap"
    /\ ip35 = 0
    /\ heap = <<opmap, opname, hasjrel, hasjabs, hasfree>>
    /\ opcode_3x = [opmap |-> PyRef(1), opname |-> PyRef(2),
                    hasjrel |-> PyRef(3), hasjabs |-> PyRef(4),
                    hasfree |-> PyRef(5)]
    /\ l = EmptyDict
    /\ lookup_result = [version |-> "", name |-> "", code |-> -1,
                        raised |-> "none", names |-> <<>>]

OpsInit ==
    OpsImporting(Parent3xOpmap, Parent3xOpname, Parent3xHasjrel,
                 Parent3xHasjabs, Parent3xHasfree)

\* Other parent tables whose opmap and opname are inverse of each other:
\* the 3.x table with an opcode more, an opcode less, two codes exchanged,
\* names that hold a '+', and tables on which the import of opcode_35 fails.
ParentVariants == {
    Parent3xOpcodes,
    Parent3xOpcodes \cup {<<"SLICE+1", 31>>},
    Parent3xOpcodes \cup {<<"STORE+MAP", 32>>},
    Parent3xOpcodes \cup {<<"SLICE+1", 31>>, <<"SLICE_1", 32>>},
    Parent3xOpcodes \ {<<"NOP", 9>>},
    (Parent3xOpcodes \ {<<"ROT_TWO", 2>>, <<"ROT_THREE", 3>>})
        \cup {<<"ROT_TWO", 3>>, <<"ROT_THREE", 2>>},
    Parent3xOpcodes \ {<<"STORE_MAP", 54>>},
    Parent3xOpcodes \cup {<<"YIELD_FROM", 72>>},
    Parent3xOpcodes \ {<<"JUMP_FORWARD", 110>>},
    Parent3xOpcodes \ {<<"POP_JUMP_IF_TRUE", 115>>}
}

\* The codes of a jump or free-variable list that the table defines.
DefinedOf(lst, opcodes) ==
    SelectSeq(lst, LAMBDA op : \E p \in opcodes : p[2] = op)

OpsInitVariant ==
    \E opcodes \in ParentVariants :
        OpsImporting(OpmapOf(opcodes), OpnameOf(opcodes),
                     DefinedOf(Parent3xHasjrel, opcodes),
                     DefinedOf(Parent3xHasjabs, opcodes),
                     DefinedOf(Parent3xHasfree, opcodes))

\* opmap = deepcopy(opcode_3x.opmap)
copy_opmap ==
    /\ pc35 = "copy_opmap"
    /\ LET r == bind_table(heap, opcode_3x.opmap.ref)
       IN heap' = r.heap /\ l' = DictPut(l, "opmap", PyRef(r.ref))
    /\ pc35' = "copy_opname"
    /\ UNCHANGED <<ip35, opcode_3x, lookup_result>>

\* opname = deepcopy(opcode_3x.opname)
copy_opname ==
    /\ pc35 = "copy_opname"
    /\ LET r == bind_table(heap, opcode_3x.opname.ref)
       IN heap' = r.heap /\ l' = DictPut(l, "opname", PyRef(r.ref))
    /\ pc35' = "init_opdata"
    /\ UNCHANGED <<ip35, opcode_3x, lookup_result>>

\* init_opdata(l, opcode_3x): l['hasjrel'] = list(from_mod.hasjrel), ...
init_opdata ==
    /\ pc35 = "init_opdata"
    /\ heap' = heap \o <<heap[opcode_3x.hasjrel.ref], heap[opcode_3x.hasjabs.ref],
                         heap[opcode_3x.hasfree.ref]>>
    /\ l' = DictPut(DictPut(DictPut(l, "hasjrel", PyRef(Len(heap) + 1)),
                            "hasjabs", PyRef(Len(heap) + 2)),
                    "hasfree", PyRef(Len(heap) + 3))
    /\ pc35' = "edit"
    /\ UNCHANGED <<ip35, opcode_3x, lookup_result>>

NextEdit == Edits35[ip35 + 1]

\* The step after a call of the edit sequence: on, to updateGlobal after the
\* last one, or out with the error.
AfterEdit(r) ==
    /\ heap' = r.heap
    /\ IF r.ok
       THEN /\ ip35' = ip35 + 1
            /\ pc35' = IF ip35 + 1 = Len(Edits35) THEN "updateGlobal" ELSE "edit"
       ELSE /\ pc35' = "TableConsistencyError"
            /\ UNCHANGED ip35
    /\ UNCHANGED <<opcode_3x, l, lookup_result>>

RmOp ==
    /\ pc35 = "edit" /\ ip35 < Len(Edits35) /\ NextEdit.op = "rm_op"
    /\ AfterEdit(rm_op(heap, l, NextEdit.name, NextEdit.code))
    /\ UNCHANGED magics_vars

DefOp ==
    /\ pc35 = "edit" /\ ip35 < Len(Edits35) /\ NextEdit.op = "def_op"
    /\ AfterEdit(def_op(heap, l, NextEdit.name, NextEdit.code))
    /\ UNCHANGED magics_vars

FreeOp ==
    /\ pc35 = "edit" /\ ip35 < Len(Edits35) /\ NextEdit.op = "free_op"
    /\ AfterEdit(free_op(heap, l, NextEdit.name, NextEdit.code))
    /\ UNCHANGED magics_vars

\* k.replace('+', '_')
RECURSIVE replace_plus(_)
replace_plus(k) ==
    IF k = "" THEN ""
    ELSE (IF SubSeq(k, 1, 1) = "+" THEN "_" ELSE SubSeq(k, 1, 1))
         \o replace_plus(SubSeq(k, 2, Len(k)))

\* One item of dict([(k.replace('+', '_'), v) for (k, v) in opmap.items()])
\* going into globals(): of two keys that become equal the later one of
\* opmap stays.
export_body(g, item) == DictPut(g, replace_plus(item[1]), PyInt(item[2]))

\* map(lambda op: opname[op], l['hasjrel'] + l['hasjabs']): an iterator over
\* a new list; it looks up opname when it is read, and can be read once.
jump_ops_map(h, ns) ==
    [iterable |-> h[ns.hasjrel.ref] \o h[ns.hasjabs.ref], next |-> 1]

\* The body of updateGlobal() on the namespace ns, which is globals() and l
\* at once: five globals().update calls one after the other.  Each call
\* reads its names through the namespace, so a failure leaves the earlier
\* calls' names published, and an opcode name published by the fifth
\* statement can rebind a name the sixth reads (globals, map, l, hasjrel,
\* hasjabs) or a later call reads (opmap, dict).  The sixth statement calls
\* globals(), then evaluates l['hasjrel'] + l['hasjabs'], then calls map.
updateGlobal_body(h, ns) ==
    LET opmap == h[ns.opmap.ref]
        g1 == DictPut(ns, "python_version", PyFloat("3.5"))
        g2 == DictPut(g1, "PJIF", PyInt(OdGet(opmap, "POP_JUMP_IF_FALSE")))
        g3 == DictPut(g2, "PJIT", PyInt(OdGet(opmap, "POP_JUMP_IF_TRUE")))
        g4 == DictPut(g3, "JF", PyInt(OdGet(opmap, "JUMP_FORWARD")))
        g5 == ForEach(export_body, g4, opmap, 1, Len(opmap))
        g6 == DictPut(g5, "JUMP_OPs", jump_ops_map(h, g5))
    IN IF Rebound(ns, "globals") THEN [ns |-> ns, raised |-> "TypeError"]
       ELSE IF "opmap" \notin DOMAIN ns THEN [ns |-> g1, raised |-> "NameError"]
       ELSE IF ~IsRef(ns.opmap) THEN [ns |-> g1, raised |-> "TypeError"]
       ELSE IF "POP_JUMP_IF_FALSE" \notin OdKeys(opmap)
       THEN [ns |-> g1, raised |-> "KeyError"]
       ELSE IF "POP_JUMP_IF_TRUE" \notin OdKeys(opmap)
       THEN [ns |-> g2, raised |-> "KeyError"]
       ELSE IF "JUMP_FORWARD" \notin OdKeys(opmap)
       THEN [ns |-> g3, raised |-> "KeyError"]
       ELSE IF Rebound(ns, "dict") THEN [ns |-> g4, raised |-> "TypeError"]
       ELSE IF Rebound(g5, "globals") \/ Rebound(g5, "l")
       THEN [ns |-> g5, raised |-> "TypeError"]
       ELSE IF "hasjrel" \notin DOMAIN g5 \/ "hasjabs" \notin DOMAIN g5
       THEN [ns |-> g5, raised |-> "KeyError"]
       ELSE IF ~IsRef(g5.hasjrel) \/ ~IsRef(g5.hasjabs) \/ Rebound(g5, "map")
       THEN [ns |-> g5, raised |-> "TypeError"]
       ELSE [ns |-> g6, raised |-> "none"]

\* updateGlobal(), at the end of the import and whenever a user of the module
\* calls it again.  An exception of the module's own call ends the import;
\* an exception of a later call goes to the caller.
updateGlobal ==
    /\ pc35 \in {"updateGlobal", "published"}
    /\ LET r == IF pc35 = "published" /\ Rebound(l, "updateGlobal")
                THEN [ns |-> l, raised |-> "TypeError"]
                ELSE updateGlobal_body(heap, l)
       IN /\ l' = r.ns
          /\ pc35' = IF pc35 = "published" \/ r.raised = "none"
                     THEN "published" ELSE r.raised
          /\ lookup_result' =
                IF pc35 = "published"
                THEN [version |-> "3.5", name |-> "updateGlobal", code |-> -1,
                      raised |-> r.raised, names |-> <<>>]
                ELSE lookup_result
    /\ UNCHANGED <<ip35, heap, opcode_3x>>

\* opname[op] on a list: the index must be within -len .. len - 1.
ListIndexOk(lst, op) ==
    LET n == Cardinality(DOMAIN lst) IN op >= -n /\ op < n

ListItem(lst, op) ==
    LET n == Cardinality(DOMAIN lst) IN IF op < 0 THEN lst[op + n] ELSE lst[op]

\* list(JUMP_OPs): the names of the jump opcodes not read yet, from opname as
\* it is now; the iterator is exhausted afterwards.  When opname[op] raises
\* the iterator stays behind the code that failed.
read_JUMP_OPs ==
    /\ pc35 = "published"
    /\ LET it == l["JUMP_OPs"]
           rest == IF IsMap(it)
                   THEN SubSeq(it.iterable, it.next, Len(it.iterable))
                   ELSE <<>>
           opname == heap[l.opname.ref]
           bad == IF ~IsRef(l.opname) THEN {i \in 1..Len(rest) : i = 1}
                  ELSE {i \in 1..Len(rest) : ~ListIndexOk(opname, rest[i])}
           stop == CHOOSE i \in bad : \A j \in bad : i <= j
           raised == IF ~IsMap(it) THEN "TypeError"
                     ELSE IF bad = {} THEN "none"
                     ELSE IF ~IsRef(l.opname) THEN "TypeError"
                     ELSE "IndexError"
       IN /\ lookup_result' =
                [version |-> "3.5", name |-> "JUMP_OPs", code |-> -1,
                 raised |-> raised,
                 names |-> IF raised = "none"
                           THEN [i \in 1..Len(rest) |-> ListItem(opname, rest[i])]
                           ELSE <<>>]
          /\ l' = IF ~IsMap(it) THEN l
                  ELSE DictPut(l, "JUMP_OPs",
                               [it EXCEPT !.next =
                                   IF bad = {} THEN Len(it.iterable) + 1
                                   ELSE it.next + stop])
    /\ UNCHANGED <<pc35, ip35, heap, opcode_3x>>

\* lookup(version, name) and lookup(version, code) on a published table.
TableOf(version) == IF version = "3.5" THEN l ELSE opcode_3x

lookup_name(version, name) ==
    LET opmap == heap[TableOf(version).opmap.ref]
    IN [version |-> version, name |-> name,
        code |-> IF name \in OdKeys(opmap) THEN OdGet(opmap, name) ELSE -1,
        raised |-> IF name \in OdKeys(opmap) THEN "none" ELSE "UnknownOpcode",
        names |-> <<>>]

lookup_code(version, code) ==
    LET opname == heap[TableOf(version).opname.ref]
    IN [version |-> version, code |-> code,
        name |-> IF opname[code] # Placeholder(code) THEN opname[code] ELSE "",
        raised |-> IF opname[code] # Placeholder(code) THEN "none" ELSE "UnknownOpcode",
        names |-> <<>>]

EditNames == {Edits35[i].name : i \in 1..Len(Edits35)}

LookupName ==
    /\ pc35 = "published"
    /\ \E version \in {"3.x", "3.5"}, name \in OdKeys(Parent3xOpmap) \cup EditNames :
          lookup_result' = lookup_name(version, name)
    /\ UNCHANGED <<pc35, ip35, heap, opcode_3x, l, magics_vars>>

LookupCode ==
    /\ pc35 = "published"
    /\ \E version \in {"3.x", "3.5"}, code \in 0..255 :
          lookup_result' = lookup_code(version, code)
    /\ UNCHANGED <<pc35, ip35, heap, opcode_3x, l, magics_vars>>

CopyOpmap == copy_opmap /\ UNCHANGED magics_vars

CopyOpname == copy_opname /\ UNCHANGED magics_vars

InitOpdata == init_opdata /\ UNCHANGED magics_vars

UpdateGlobal == updateGlobal /\ UNCHANGED magics_vars

ReadJumpOps == read_JUMP_OPs /\ UNCHANGED magics_vars

NextOps ==
    \/ CopyOpmap \/ CopyOpname \/ InitOpdata \/ RmOp \/ DefOp \/ FreeOp
    \/ UpdateGlobal \/ LookupName \/ LookupCode \/ ReadJumpOps

----------------------------------------------------------------------------
(* Specifications *)

\* Before opcode_35 is imported there are no table objects and no names.
OpsNotImported ==
    /\ pc35 = "not imported"
    /\ ip35 = 0
    /\ heap = <<>>
    /\ opcode_3x = EmptyDict
    /\ l = EmptyDict
    /\ lookup_result = [version |-> "", name |-> "", code |-> -1,
                        raised |-> "none", names |-> <<>>]

\* The import of magics.py begins; opcode_35 is not imported.
InitMagics == MagicsInit /\ OpsNotImported

\* The import of opcode_35.py begins, opcode_3x being imported.
Init == MagicsInit /\ OpsInit

\* Any catalogue over the small universe, and calls of the two public
\* registration functions at any time.
Spec == InitMagics /\ [][Next]_vars

\* The catalogue of magics.py as written, then runtime queries.
SpecCatalog == InitMagics /\ [][NextCatalog]_vars

\* The import of opcode_35.py and what follows it, without the lookups.
NextBuild ==
    \/ CopyOpmap \/ CopyOpname \/ InitOpdata \/ RmOp \/ DefOp \/ FreeOp
    \/ UpdateGlobal \/ ReadJumpOps

InitVariant == MagicsInit /\ OpsInitVariant

\* The import of opcode_35.py over each of the parent tables.
SpecOpsVariants == InitVariant /\ [][NextBuild]_vars

\* The import of opcode_35.py, then lookups.
SpecOps == Init /\ [][NextOps]_vars

----------------------------------------------------------------------------
(* What the histories say *)

RegisteredPairs == {<<hist_reg[i][1], hist_reg[i][2]>> : i \in 1..Len(hist_reg)}

\* Every call was made where magics.py makes it: the registrations before
\* the index is built, the alias registrations between the construction of
\* the index and the self-mapping loop.
InOrder ==
    /\ \A i \in 1..Len(hist_reg) : hist_reg[i][3] = "register"
    /\ \A i \in 1..Len(hist_alias) : hist_alias[i][3] = "built"

RegisteredInts == {p[1] : p \in RegisteredPairs}

RegisteredVersions == {p[2] : p \in RegisteredPairs}

\* The version of the last add_magic_from_int call for magic_int.
LastVersionOf(magic_int) ==
    LET last == CHOOSE i \in 1..Len(hist_reg) :
                    /\ hist_reg[i][1] = magic_int
                    /\ \A j \in (i + 1)..Len(hist_reg) : hist_reg[j][1] # magic_int
    IN hist_reg[last][2]

Words(release_versions) ==
    LET vs == split(release_versions) IN {vs[i] : i \in 1..Len(vs)}

AliasedStrings == UNION {Words(hist_alias[i][1]) : i \in 1..Len(hist_alias)}

UsedAliasTargets == {hist_alias[i][2] : i \in 1..Len(hist_alias)}

\* The target of the last add_canonic_versions call whose list holds raw.
LastAliasTarget(raw) ==
    LET last == CHOOSE i \in 1..Len(hist_alias) :
                    /\ raw \in Words(hist_alias[i][1])
                    /\ \A j \in (i + 1)..Len(hist_alias) :
                          raw \notin Words(hist_alias[j][1])
    IN hist_alias[last][2]

IndexBuilt == pc \in {"built", "selfmapped", "done"}

Initialized == pc = "done"

----------------------------------------------------------------------------
(* Claims about the registry *)

\* C1 (as claimed): once the index is built from the registrations made
\* before it, by_magic[int2magic(m)] holds every version string that was
\* ever registered with magic integer m.
C1_EveryRegisteredVersionInByMagic ==
    (IndexBuilt /\ InOrder) =>
        \A p \in RegisteredPairs :
            /\ int2magic(p[1]) \in DOMAIN by_magic
            /\ p[2] \in by_magic[int2magic(p[1])]

\* C2 (as claimed): after initialization, for every version v registered
\* with some magic integer, magics[v] is the identifier of a magic integer
\* registered with v and v is in by_magic[magics[v]], alias registrations
\* notwithstanding.
C2_MagicForRegisteredVersion ==
    (Initialized /\ InOrder) =>
        \A v \in RegisteredVersions :
            /\ v \in DOMAIN magics
            /\ \E p \in RegisteredPairs : p[2] = v /\ magics[v] = int2magic(p[1])
            /\ magics[v] \in DOMAIN by_magic
            /\ v \in by_magic[magics[v]]

\* C3: for every registered magic integer m, the legacy 39170 and 39171
\* included, magic2int(int2magic(m)) = m, and int2magic maps no two
\* registered integers to the same identifier.
C3_MagicRoundTrip ==
    /\ \A m \in DOMAIN magicint2version : magic2int(int2magic(m)) = m
    /\ \A m1, m2 \in DOMAIN magicint2version :
          m1 # m2 => int2magic(m1) # int2magic(m2)

\* C3 witness: the whole catalogue is registered, the two legacy integers
\* with their \x99\x00 terminator and 62211 with \r\n.
C3_Witness ==
    /\ Initialized
    /\ {39170, 39171, 62211} \subseteq DOMAIN magicint2version
    /\ int2magic(39170) \in OdKeys(versions)
    /\ int2magic(39170)[3] = 153
    /\ int2magic(62211) = <<3, 243, 13, 10>>
    /\ Cardinality(DOMAIN magicint2version) > 100

\* C4 (as claimed): after initialization canonicalization is idempotent on
\* the known versions, and every version registered with a magic integer
\* and every alias target is its own canonic version.
C4_CanonicIdempotent ==
    (Initialized /\ InOrder) =>
        /\ \A v \in python_versions :
              /\ canonic_python_version[v] \in DOMAIN canonic_python_version
              /\ canonic_python_version[canonic_python_version[v]]
                     = canonic_python_version[v]
        /\ \A c \in RegisteredVersions \cup UsedAliasTargets :
              /\ c \in DOMAIN canonic_python_version
              /\ canonic_python_version[c] = c

\* C5 (as claimed): after initialization every aliased string is bound to
\* the target of its last alias registration.
C5_AliasBoundToTarget ==
    (Initialized /\ InOrder) =>
        \A r \in AliasedStrings :
            /\ r \in DOMAIN canonic_python_version
            /\ canonic_python_version[r] = LastAliasTarget(r)

\* C5 (amended): after initialization every aliased string is bound to the
\* target of its last alias registration, unless it is the current version
\* of a registered magic (a value of versions): the closing self-mapping
\* loop then rebinds it to itself.
C5_AliasBoundUnlessRegistered ==
    (Initialized /\ InOrder) =>
        \A r \in AliasedStrings :
            /\ r \in DOMAIN canonic_python_version
            /\ canonic_python_version[r] =
                  IF r \in OdValues(versions) THEN r ELSE LastAliasTarget(r)

\* C5 witness: initialization is complete with an aliased string that is
\* not a registered version and one that is, aliased to another target.
C5_Witness ==
    /\ Initialized
    /\ InOrder
    /\ \E r \in AliasedStrings :
          r \notin OdValues(versions) /\ canonic_python_version[r] # r
    /\ \E r \in AliasedStrings :
          r \in OdValues(versions) /\ LastAliasTarget(r) # r

\* C6: for every registered magic integer m, magicint2version[m] is the
\* version of the last registration of m; once the index is built from
\* the registrations, that version is in by_magic[int2magic(m)]; distinct registered integers keep
\* distinct forward and reverse entries, also when their versions agree.
C6_ForwardLastWins ==
    /\ \A m \in RegisteredInts :
          /\ m \in DOMAIN magicint2version
          /\ magicint2version[m] = LastVersionOf(m)
          /\ (IndexBuilt /\ InOrder) =>
                /\ int2magic(m) \in DOMAIN by_magic
                /\ magicint2version[m] \in by_magic[int2magic(m)]
    /\ \A m1, m2 \in RegisteredInts : m1 # m2 => int2magic(m1) # int2magic(m2)

\* C6 witness: after initialization two distinct magic integers carry the
\* same version, one of them after being registered twice with different
\* versions.
C6_Witness ==
    /\ Initialized
    /\ InOrder
    /\ \E m1, m2 \in RegisteredInts :
          /\ m1 # m2
          /\ magicint2version[m1] = magicint2version[m2]
          /\ magicint2version[m1] \in by_magic[int2magic(m1)]
          /\ magicint2version[m2] \in by_magic[int2magic(m2)]
          /\ \E p \in RegisteredPairs : p[1] = m1 /\ p[2] # magicint2version[m1]

\* C7 (as claimed): an alias registration whose target was not registered
\* with a magic integer fails, so in a registry whose import has not failed
\* every alias target, and every value of canonic_python_version, is a
\* version registered with a magic integer.
C7_AliasTargetsRegistered ==
    (pc # "error" /\ InOrder) =>
        /\ \A t \in UsedAliasTargets : t \in RegisteredVersions
        /\ \A r \in DOMAIN canonic_python_version :
              canonic_python_version[r] \in RegisteredVersions

\* C8 (as claimed): for a runtime reported as PyPy, Jython, Pyston or
\* GraalVM the key sysinfo2magic looks up is the version string with the
\* implementation suffix appended, never the plain version string.
ExpectedSuffix(impl) ==
    IF impl = "PyPy" THEN "pypy"
    ELSE IF impl \in ImplementationNames THEN impl ELSE ""

C8_ImplementationSuffixInKey ==
    (/\ sys_result.impl \in {"PyPy"} \cup ImplementationNames
     /\ sys_result.has_platform \/ sys_result.impl = "PyPy")
    => /\ sys_result.key = vers_str_of(sys_result.version_info)
                               \o ExpectedSuffix(sys_result.impl)
       /\ sys_result.key # vers_str_of(sys_result.version_info)

----------------------------------------------------------------------------
(* Claims about the 3.5 opcode table *)

\* opcode_35's table objects, once bound.
Table35 == [opmap |-> OdAsDict(heap[l.opmap.ref]), opname |-> heap[l.opname.ref]]

CodesOf(opmap) == {opmap[n] : n \in DOMAIN opmap}

EditApplicable(e) ==
    LET t == Table35
    IN IF e.op = "rm_op"
       THEN /\ e.name \in DOMAIN t.opmap
            /\ t.opmap[e.name] = e.code
            /\ t.opname[e.code] = e.name
       ELSE /\ e.name \notin DOMAIN t.opmap
            /\ e.code \notin CodesOf(t.opmap)
            /\ t.opname[e.code] = Placeholder(e.code)

Definitions35 == {i \in 1..Len(Edits35) : Edits35[i].op \in {"def_op", "free_op"}}

\* C9: replayed in order on the copy of the 3.x table, every rm_op of the
\* 3.5 sequence finds its (name, code) pair present and every def_op or
\* free_op finds its name and its code absent, so the replay never fails;
\* 69 and 81 are defined again only once STORE_LOCALS and WITH_CLEANUP are
\* gone; no two definitions share a name or a code.
C9_EditsApplicableInOrder ==
    /\ pc35 # "TableConsistencyError"
    /\ (pc35 = "edit" /\ ip35 < Len(Edits35)) => EditApplicable(Edits35[ip35 + 1])
    /\ LET names == OdKeys(heap[l.opmap.ref])
       IN \A i \in Definitions35 :
             ip35 >= i => Parent3xOpname[Edits35[i].code] \notin names
    /\ \A i, j \in Definitions35 :
          i # j => /\ Edits35[i].name # Edits35[j].name
                   /\ Edits35[i].code # Edits35[j].code

\* C9 witness: the whole sequence has been applied; 69 and 81 carry their
\* new names and the old holders are gone.
C9_Witness ==
    /\ pc35 = "updateGlobal"
    /\ ip35 = Len(Edits35)
    /\ Table35.opname[69] = "GET_YIELD_FROM_ITER"
    /\ Table35.opname[81] = "WITH_CLEANUP_START"
    /\ Table35.opmap["GET_YIELD_FROM_ITER"] = 69
    /\ {"STORE_LOCALS", "WITH_CLEANUP", "STOP_CODE", "STORE_MAP"}
          \cap DOMAIN Table35.opmap = {}

\* C10: building the 3.5 table never changes the 3.x table: in every state
\* of the build and after it the parent's opmap and opname hold exactly
\* what they held before.
C10_ParentUnchanged ==
    /\ heap[opcode_3x.opmap.ref] = Parent3xOpmap
    /\ heap[opcode_3x.opname.ref] = Parent3xOpname

\* C10 witness: the 3.5 table is published, in objects of its own, and
\* differs from its parent, which still has the four removed opcodes and none of the added ones.
C10_Witness ==
    /\ pc35 = "published"
    /\ l.opmap # opcode_3x.opmap
    /\ l.opname # opcode_3x.opname
    /\ heap[l.opmap.ref] # heap[opcode_3x.opmap.ref]
    /\ OdGet(heap[opcode_3x.opmap.ref], "STOP_CODE") = 0
    /\ OdGet(heap[opcode_3x.opmap.ref], "STORE_LOCALS") = 69
    /\ OdGet(heap[opcode_3x.opmap.ref], "WITH_CLEANUP") = 81
    /\ OdGet(heap[opcode_3x.opmap.ref], "STORE_MAP") = 54
    /\ heap[opcode_3x.opname.ref][69] = "STORE_LOCALS"
    /\ \A i \in Definitions35 :
          /\ Edits35[i].name \notin OdKeys(heap[opcode_3x.opmap.ref])
          /\ Edits35[i].name \in OdKeys(heap[l.opmap.ref])
    /\ "STOP_CODE" \notin OdKeys(heap[l.opmap.ref])


\* The opcodes 3.5 no longer has.
RemovedNames35 == {"STOP_CODE", "STORE_LOCALS", "WITH_CLEANUP", "STORE_MAP"}

NamesOf(opname) == {opname[c] : c \in DOMAIN opname}

\* C11 (as claimed): for each of the parent tables, from the time both
\* projections of the 3.5 table are bound, every name of opmap maps to a code whose opname entry is that name, no two
\* names share a code and every named code of opname maps back to itself;
\* in the published table no removed name is in opmap, in opname or among
\* the names updateGlobal exported into the module's namespace.
C11_Table35Bijective ==
    /\ pc35 \notin {"copy_opmap", "copy_opname"} =>
          LET opmap == Table35.opmap
              opname == Table35.opname
          IN /\ \A n \in DOMAIN opmap : opname[opmap[n]] = n
             /\ \A n1, n2 \in DOMAIN opmap : n1 # n2 => opmap[n1] # opmap[n2]
             /\ \A c \in DOMAIN opname :
                   opname[c] # Placeholder(c) =>
                      /\ opname[c] \in DOMAIN opmap
                      /\ opmap[opname[c]] = c
    /\ pc35 = "published" =>
          /\ RemovedNames35 \cap OdKeys(heap[l.opmap.ref]) = {}
          /\ RemovedNames35 \cap NamesOf(heap[l.opname.ref]) = {}
          /\ RemovedNames35 \cap DOMAIN l = {}

\* The names the fifth statement of updateGlobal exports for the 3.5 table.
ExportedNames35 == {replace_plus(n) : n \in OdKeys(heap[l.opmap.ref])}

\* C11 (amended): for each of the parent tables, whose projections are
\* inverse of each other, the 3.5 table stays bijective from the time both
\* projections are bound; in the published table no removed name is in
\* opmap or in opname, and a removed name is among the names of the
\* module's namespace exactly when a name of the 3.5 table becomes it by
\* the replacement of '+' with '_' that updateGlobal makes.
C11_Table35BijectiveExportAsWritten ==
    /\ pc35 \notin {"copy_opmap", "copy_opname"} =>
          LET opmap == Table35.opmap
              opname == Table35.opname
          IN /\ \A n \in DOMAIN opmap : opname[opmap[n]] = n
             /\ \A n1, n2 \in DOMAIN opmap : n1 # n2 => opmap[n1] # opmap[n2]
             /\ \A c \in DOMAIN opname :
                   opname[c] # Placeholder(c) =>
                      /\ opname[c] \in DOMAIN opmap
                      /\ opmap[opname[c]] = c
    /\ pc35 = "published" =>
          /\ RemovedNames35 \cap OdKeys(heap[l.opmap.ref]) = {}
          /\ RemovedNames35 \cap NamesOf(heap[l.opname.ref]) = {}
          /\ RemovedNames35 \cap DOMAIN l = RemovedNames35 \cap ExportedNames35

\* C11 witness: the 3.5 table is published over a parent that holds
\* STORE+MAP at 32: with the four removals and the seventeen additions
\* applied STORE_MAP is in neither projection, and updateGlobal has
\* exported STORE+MAP under the name STORE_MAP.
C11_Witness ==
    /\ pc35 = "published"
    /\ RemovedNames35 =
          {Edits35[i].name : i \in {j \in 1..Len(Edits35) : Edits35[j].op = "rm_op"}}
    /\ OdKeys(heap[opcode_3x.opmap.ref])
          = OdKeys(Parent3xOpmap) \cup {"STORE+MAP"}
    /\ Cardinality(DOMAIN Table35.opmap) = Len(Parent3xOpmap) + 1 - 4 + 17
    /\ "STORE_MAP" \notin DOMAIN Table35.opmap
    /\ Table35.opname[54] = Placeholder(54)
    /\ Table35.opmap["STORE+MAP"] = 32
    /\ l["STORE_MAP"] = PyInt(32)
    /\ l["GET_YIELD_FROM_ITER"] = PyInt(69)
    /\ l["PJIF"] = PyInt(114)
    /\ IsMap(l["JUMP_OPs"])

----------------------------------------------------------------------------
(* Claims about the version tuples *)

\* The (major, minor) release a version string belongs to.
ReleaseOf(orig_version) ==
    LET m == match_two(strip_pypy_dropbox(orig_version))
    IN <<int(m[1]), int(m[2])>>

\* C12 (as claimed): py_str2tuple maps every known version string to the
\* tuple (major, minor) of its release, so all strings of one release get
\* the same tuple, and magic_int2tuple gives every registered magic integer
\* the (major, minor) tuple of its release.
C12_ReleaseTuple ==
    /\ (tuple_result.fn # "" /\ tuple_result.raised = "none") =>
          tuple_result.value = ReleaseOf(tuple_result.version)
    /\ Initialized =>
          /\ \A v \in VersionQueries \cap python_versions :
                py_str2tuple(v, magics) = [raised |-> "none", value |-> ReleaseOf(v)]
          /\ \A m \in MagicQueries \cap DOMAIN magicint2version :
                magic_int2tuple(m, magicint2version, magics) =
                    [raised |-> "none", value |-> ReleaseOf(magicint2version[m])]

----------------------------------------------------------------------------
(* Claims about the order of registrations *)

\* The magic integers registered with version at some time.
RegisteredWith(version) == {p[1] : p \in {q \in RegisteredPairs : q[2] = version}}

\* The magic integer of the last add_magic_from_int call that named version.
LastRegisteredWith(version) ==
    LET last == CHOOSE i \in 1..Len(hist_reg) :
                    /\ hist_reg[i][2] = version
                    /\ \A j \in (i + 1)..Len(hist_reg) : hist_reg[j][2] # version
    IN hist_reg[last][1]

\* The magic integers whose last registration named version.
CurrentlyWith(version) == {m \in RegisteredInts : LastVersionOf(m) = version}

\* The position of the first add_magic_from_int call for magic_int.
FirstRegistration(magic_int) ==
    CHOOSE i \in 1..Len(hist_reg) :
        /\ hist_reg[i][1] = magic_int
        /\ \A j \in 1..(i - 1) : hist_reg[j][1] # magic_int

\* The index holds what __by_version built for the registered versions.
IndexAsBuilt == IndexBuilt /\ InOrder /\ hist_alias = <<>>

\* C13 (as claimed): once the index is built, a version registered with
\* several magic integers has in by_version the identifier of the magic
\* integer most recently registered with it.
C13_MostRecentRegistrationWins ==
    IndexAsBuilt =>
        \A v \in RegisteredVersions :
            Cardinality(RegisteredWith(v)) > 1 =>
                /\ v \in DOMAIN by_version
                /\ by_version[v] = int2magic(LastRegisteredWith(v))

\* C13 (amended): once the index is built, a version that is the current
\* (last-registered) version of some magic integer has in by_version the
\* identifier of the one of those integers whose first registration came
\* last; a version that is no integer's current version is not in
\* by_version.
C13_LatestFirstRegistrationWins ==
    IndexAsBuilt =>
        \A v \in RegisteredVersions :
            IF CurrentlyWith(v) = {}
            THEN v \notin DOMAIN by_version
            ELSE /\ v \in DOMAIN by_version
                 /\ by_version[v] = int2magic(
                       CHOOSE m \in CurrentlyWith(v) :
                           \A m2 \in CurrentlyWith(v) :
                               FirstRegistration(m2) <= FirstRegistration(m))

\* C13 witness: the index is built, a version is current for two magic
\* integers, the one registered with it most recently was first registered
\* before the other, and by_version holds the other's identifier.
C13_Witness ==
    /\ IndexAsBuilt
    /\ \E v \in RegisteredVersions :
          \E m1, m2 \in CurrentlyWith(v) :
              /\ m1 # m2
              /\ LastRegisteredWith(v) = m1
              /\ FirstRegistration(m1) < FirstRegistration(m2)
              /\ by_version[v] = int2magic(m2)

----------------------------------------------------------------------------
(* Claims about failed alias registrations *)

\* A step that is an add_canonic_versions call raising KeyError.
FailedAliasStep ==
    /\ hist_alias' # hist_alias
    /\ err' = "KeyError"

\* C14 (as claimed): an add_canonic_versions call that fails because its
\* target is not in magics leaves canonic_python_version and magics
\* (by_version) as they were, so that afterwards every value of
\* canonic_python_version is still a key of magics.
C14_FailedAliasLeavesRegistry ==
    [][FailedAliasStep =>
          /\ canonic_python_version' = canonic_python_version
          /\ by_version' = by_version
          /\ \A r \in DOMAIN canonic_python_version' :
                canonic_python_version'[r] \in DOMAIN by_version']_vars
====
